---- MODULE Spec2Model ----
(***************************************************************************)
(* Resonant Worlds Explorer backend: the LRU cache (core/cache.py), the    *)
(* status and results endpoints (api/routes) and the job pipeline that     *)
(* feeds them.                                                             *)
(***************************************************************************)
EXTENDS Integers, Sequences, FiniteSets, TLC

\* ------------------------------------------------------------------------
\* Bounds of the model
\* ------------------------------------------------------------------------
NumKeys == 3
NumValues == 2
MaxSize == 2
MaxGets == 2
NumThreads == 2
NumConcKeys == 2
MaxConcGets == 2
NumJobs == 2
NumDatasets == 1
MaxCandidates == 2
NumRemoteSnr == 2
NumSeries == 2
MaxModuleGets == 1
MaxMemoGets == 1
MaxSnr == 8
MaxMinSnr == 4

\* Program constants
PreprocessMaxsize == 100
BlsMaxsize == 50
MinSnr == 3
HumanReviewMargin == 1
InitialDatasets == 3
FurtherDatasets == 60

Keys == 1..NumKeys
\* Python's None; put accepts it as a value like any other object.
None == 0
\* no key (keys are 1..NumKeys)
NoKey == 0
Values == {None} \cup (1..NumValues)

\* ------------------------------------------------------------------------
\* State
\* ------------------------------------------------------------------------
VARIABLES
    caches,       \* instance name -> LRUCache object [cache, maxsize, hits, misses]
    last,         \* the last completed cache call with its result
    accessOrder,  \* history: per instance, stored keys by time of last access, oldest first
    lastPut,      \* history: per instance, key -> value of the latest put of a stored key
    scen,         \* history: how far the calls so far follow put A, put B, get A, put C
    threads,      \* job executions calling into a shared cache: position and locals
    getCalls,     \* history: get calls made by the threads
    cleared,      \* history: a thread has called clear
    jobs,         \* job store: job_id -> job record
    candidates,   \* job store: job_id -> stored candidate list
    runs,         \* job_id -> the pipeline execution that owns the job
    adapter,      \* the latest fit_transit and run_checks calls: inputs and result
    verdict,      \* the latest call of the disposition classifier: inputs and disposition
    memo,         \* history: per key, what was put and accessed since the key was last accessed
    script        \* position of the cache demonstration script and what its last lookup found

cacheVars == <<caches, last, accessOrder, lastPut, scen>>
threadVars == <<threads, getCalls, cleared>>
jobVars == <<jobs, candidates, runs>>
vars == <<caches, last, accessOrder, lastPut, scen,
          threads, getCalls, cleared,
          jobs, candidates, runs, adapter, verdict, memo, script>>

\* ------------------------------------------------------------------------
\* collections.OrderedDict, as a sequence of <<key, value>> in dict order
\* ------------------------------------------------------------------------
RECURSIVE SelectPairs(_, _)
SelectPairs(od, drop) ==
    IF od = <<>> THEN <<>>
    ELSE IF Head(od)[1] = drop THEN SelectPairs(Tail(od), drop)
    ELSE <<Head(od)>> \o SelectPairs(Tail(od), drop)

KeysOf(od) == {od[i][1] : i \in DOMAIN od}

Contains(od, key) == key \in KeysOf(od)

GetItem(od, key) == od[CHOOSE i \in DOMAIN od : od[i][1] = key][2]

\* OrderedDict.move_to_end(key): KeyError when key is absent (callers test first)
MoveToEnd(od, key) == Append(SelectPairs(od, key), <<key, GetItem(od, key)>>)

\* OrderedDict.pop(key)
Pop(od, key) == SelectPairs(od, key)

\* od[key] = value: an existing key keeps its position, a new key goes last
SetItem(od, key, value) ==
    IF Contains(od, key)
    THEN [i \in DOMAIN od |-> IF od[i][1] = key THEN <<key, value>> ELSE od[i]]
    ELSE Append(od, <<key, value>>)

\* next(iter(od))
FirstKey(od) == od[1][1]

\* ------------------------------------------------------------------------
\* class LRUCache
\* ------------------------------------------------------------------------
LRUCache(maxsize) == [cache |-> <<>>, maxsize |-> maxsize, hits |-> 0, misses |-> 0]

\* get that counts the hit but leaves the entry where it is (no move_to_end)
get_noMove(self, key) ==
    IF Contains(self.cache, key)
    THEN [self |-> [self EXCEPT !.hits = @ + 1],
          ret  |-> GetItem(self.cache, key)]
    ELSE [self |-> [self EXCEPT !.misses = @ + 1],
          ret  |-> None]

\* get that does not count a lookup that misses
get_missUncounted(self, key) ==
    IF Contains(self.cache, key)
    THEN [self |-> [self EXCEPT !.hits = @ + 1, !.cache = MoveToEnd(@, key)],
          ret  |-> GetItem(self.cache, key)]
    ELSE [self |-> self,
          ret  |-> None]

\* get that marks the oldest entry, not the entry it returns, as recently used
get_moveOldest(self, key) ==
    IF Contains(self.cache, key)
    THEN [self |-> [self EXCEPT !.hits = @ + 1, !.cache = MoveToEnd(@, FirstKey(@))],
          ret  |-> GetItem(self.cache, key)]
    ELSE [self |-> [self EXCEPT !.misses = @ + 1],
          ret  |-> None]

\* get(self, key): the object after the call and the returned value
get(self, key) ==
    IF Contains(self.cache, key)
    THEN [self |-> [self EXCEPT !.hits = @ + 1, !.cache = MoveToEnd(@, key)],
          ret  |-> GetItem(self.cache, key)]
    ELSE [self |-> [self EXCEPT !.misses = @ + 1],
          ret  |-> None]

\* put with the capacity test off by one (> for >=)
put_offByOne(self, key, value) ==
    IF Contains(self.cache, key)
    THEN [self |-> [self EXCEPT !.cache = SetItem(MoveToEnd(@, key), key, value)],
          evicted_key |-> NoKey, raised |-> "none"]
    ELSE IF Len(self.cache) > self.maxsize
         THEN [self |-> [self EXCEPT !.cache =
                            SetItem(Pop(@, FirstKey(@)), key, value)],
               evicted_key |-> FirstKey(self.cache), raised |-> "none"]
         ELSE [self |-> [self EXCEPT !.cache = SetItem(@, key, value)],
               evicted_key |-> NoKey, raised |-> "none"]

\* put that evicts the newest entry (the last of the dict) instead of the oldest
put_evictNewest(self, key, value) ==
    IF Contains(self.cache, key)
    THEN [self |-> [self EXCEPT !.cache = SetItem(MoveToEnd(@, key), key, value)],
          evicted_key |-> NoKey, raised |-> "none"]
    ELSE IF Len(self.cache) >= self.maxsize
         THEN IF self.cache = <<>>
              THEN [self |-> self, evicted_key |-> NoKey, raised |-> "StopIteration"]
              ELSE [self |-> [self EXCEPT !.cache =
                                 SetItem(Pop(@, @[Len(@)][1]), key, value)],
                    evicted_key |-> self.cache[Len(self.cache)][1], raised |-> "none"]
         ELSE [self |-> [self EXCEPT !.cache = SetItem(@, key, value)],
               evicted_key |-> NoKey, raised |-> "none"]

\* put that tests the capacity before it tests whether the key is stored
put_capacityFirst(self, key, value) ==
    IF Len(self.cache) >= self.maxsize
    THEN IF self.cache = <<>>
         THEN [self |-> self, evicted_key |-> NoKey, raised |-> "StopIteration"]
         ELSE [self |-> [self EXCEPT !.cache =
                            SetItem(Pop(@, FirstKey(@)), key, value)],
               evicted_key |-> FirstKey(self.cache), raised |-> "none"]
    ELSE IF Contains(self.cache, key)
         THEN [self |-> [self EXCEPT !.cache = SetItem(MoveToEnd(@, key), key, value)],
               evicted_key |-> NoKey, raised |-> "none"]
         ELSE [self |-> [self EXCEPT !.cache = SetItem(@, key, value)],
               evicted_key |-> NoKey, raised |-> "none"]

\* put that replaces the value of a stored key where it is (no move_to_end)
put_noRefresh(self, key, value) ==
    IF Contains(self.cache, key)
    THEN [self |-> [self EXCEPT !.cache = SetItem(@, key, value)],
          evicted_key |-> NoKey, raised |-> "none"]
    ELSE IF Len(self.cache) >= self.maxsize
         THEN IF self.cache = <<>>
              THEN [self |-> self, evicted_key |-> NoKey, raised |-> "StopIteration"]
              ELSE [self |-> [self EXCEPT !.cache =
                                 SetItem(Pop(@, FirstKey(@)), key, value)],
                    evicted_key |-> FirstKey(self.cache), raised |-> "none"]
         ELSE [self |-> [self EXCEPT !.cache = SetItem(@, key, value)],
               evicted_key |-> NoKey, raised |-> "none"]

\* put(self, key, value): the object after the call, the key it evicted (the one it
\* logs) and the exception raised (next(iter(...)) of an empty dict raises
\* StopIteration before anything is stored)
put(self, key, value) ==
    IF Contains(self.cache, key)
    THEN [self |-> [self EXCEPT !.cache = SetItem(MoveToEnd(@, key), key, value)],
          evicted_key |-> NoKey, raised |-> "none"]
    ELSE IF Len(self.cache) >= self.maxsize
         THEN IF self.cache = <<>>
              THEN [self |-> self, evicted_key |-> NoKey, raised |-> "StopIteration"]
              ELSE [self |-> [self EXCEPT !.cache =
                                 SetItem(Pop(@, FirstKey(@)), key, value)],
                    evicted_key |-> FirstKey(self.cache), raised |-> "none"]
         ELSE [self |-> [self EXCEPT !.cache = SetItem(@, key, value)],
               evicted_key |-> NoKey, raised |-> "none"]

\* clear that empties the entries and leaves the counters as they are
clear_keepStats(self) == [self EXCEPT !.cache = <<>>]

\* clear(self)
clear(self) == [self EXCEPT !.cache = <<>>, !.hits = 0, !.misses = 0]

RECURSIVE Gcd(_, _)
Gcd(a, b) == IF b = 0 THEN a ELSE Gcd(b, a % b)

\* a / b of two non-negative numbers, b > 0, as a fraction in lowest terms
Ratio(a, b) == [num |-> a \div Gcd(a, b), den |-> b \div Gcd(a, b)]

NoStats == [size |-> 0, maxsize |-> 0, hits |-> 0, misses |-> 0,
            hit_rate |-> Ratio(0, 1), usage_pct |-> Ratio(0, 1)]

\* stats that divides the misses, not the hits, by the number of requests
stats_missRate(self) ==
    LET total_requests == self.hits + self.misses
        hit_rate == IF total_requests > 0 THEN Ratio(self.misses, total_requests)
                    ELSE Ratio(0, 1)
    IN  IF self.maxsize = 0
        THEN [ret |-> NoStats, raised |-> "ZeroDivisionError"]
        ELSE [ret |-> [size |-> Len(self.cache), maxsize |-> self.maxsize,
                       hits |-> self.hits, misses |-> self.misses,
                       hit_rate |-> hit_rate,
                       usage_pct |-> Ratio(Len(self.cache) * 100, self.maxsize)],
              raised |-> "none"]

\* stats(self): the returned dict, and the exception raised (len / maxsize
\* divides by zero when maxsize is 0)
stats(self) ==
    LET total_requests == self.hits + self.misses
        hit_rate == IF total_requests > 0 THEN Ratio(self.hits, total_requests)
                    ELSE Ratio(0, 1)
    IN  IF self.maxsize = 0
        THEN [ret |-> NoStats, raised |-> "ZeroDivisionError"]
        ELSE [ret |-> [size |-> Len(self.cache), maxsize |-> self.maxsize,
                       hits |-> self.hits, misses |-> self.misses,
                       hit_rate |-> hit_rate,
                       usage_pct |-> Ratio(Len(self.cache) * 100, self.maxsize)],
              raised |-> "none"]

\* ------------------------------------------------------------------------
\* History of accesses, kept beside the objects
\* ------------------------------------------------------------------------
RECURSIVE Without(_, _)
Without(s, x) ==
    IF s = <<>> THEN <<>>
    ELSE IF Head(s) = x THEN Without(Tail(s), x)
    ELSE <<Head(s)>> \o Without(Tail(s), x)

RECURSIVE Only(_, _)
Only(s, S) ==
    IF s = <<>> THEN <<>>
    ELSE IF Head(s) \in S THEN <<Head(s)>> \o Only(Tail(s), S)
    ELSE Only(Tail(s), S)

\* key was accessed now; entries that are no longer stored are forgotten
Touch(order, key, stored) == Only(Append(Without(order, key), key), stored)

\* The scenario put A, put B, get A, put C on an empty cache of maxsize 2:
\* the number of its calls made so far, 0 when the calls have left it
KeyA == 1
KeyB == 2
KeyC == 3
Scenario == <<[op |-> "put", key |-> KeyA], [op |-> "put", key |-> KeyB],
              [op |-> "get", key |-> KeyA], [op |-> "put", key |-> KeyC]>>

ScenAfter(n, self, op, key) ==
    IF n < Len(Scenario) /\ n > 0 /\ Scenario[n + 1] = [op |-> op, key |-> key]
    THEN n + 1
    ELSE IF self.cache = <<>> /\ self.maxsize = 2 /\ Scenario[1] = [op |-> op, key |-> key]
    THEN 1
    ELSE 0

NoCall == [op |-> "none", c |-> "none", key |-> NoKey, value |-> None, ret |-> None,
           evicted_key |-> NoKey, stats |-> NoStats, raised |-> "none"]

\* ------------------------------------------------------------------------
\* Calls on one cache object, one at a time
\* ------------------------------------------------------------------------
CallGet(c, key) ==
    /\ caches[c].hits + caches[c].misses < MaxGets
    /\ LET r == get(caches[c], key)
           hit == key \in KeysOf(caches[c].cache)
       IN  /\ caches' = [caches EXCEPT ![c] = r.self]
           /\ last' = [NoCall EXCEPT !.op = "get", !.c = c, !.key = key, !.ret = r.ret]
           /\ accessOrder' = [accessOrder EXCEPT ![c] =
                                 IF hit THEN Touch(@, key, KeysOf(r.self.cache)) ELSE @]
           /\ scen' = ScenAfter(scen, caches[c], "get", key)
           /\ UNCHANGED lastPut
    /\ UNCHANGED <<threadVars, jobVars, adapter, verdict, memo, script>>

CallPut(c, key, value) ==
    LET r == put(caches[c], key, value)
        stored == KeysOf(r.self.cache)
    IN  /\ caches' = [caches EXCEPT ![c] = r.self]
        /\ last' = [NoCall EXCEPT !.op = "put", !.c = c, !.key = key, !.value = value,
                !.evicted_key = r.evicted_key,
                !.raised = r.raised]
        /\ accessOrder' = [accessOrder EXCEPT ![c] =
                              IF r.raised = "none" THEN Touch(@, key, stored) ELSE @]
        /\ lastPut' = [lastPut EXCEPT ![c] =
                          [k \in Keys |-> IF k \notin stored THEN None
                                          ELSE IF k = key /\ r.raised = "none" THEN value
                                          ELSE @[k]]]
        /\ scen' = ScenAfter(scen, caches[c], "put", key)
        /\ UNCHANGED <<threadVars, jobVars, adapter, verdict, memo, script>>

CallClear(c) ==
    /\ caches' = [caches EXCEPT ![c] = clear(@)]
    /\ last' = [NoCall EXCEPT !.op = "clear", !.c = c]
    /\ accessOrder' = [accessOrder EXCEPT ![c] = <<>>]
    /\ lastPut' = [lastPut EXCEPT ![c] = [k \in Keys |-> None]]
    /\ scen' = 0
    /\ UNCHANGED <<threadVars, jobVars, adapter, verdict, memo, script>>

CallStats(c) ==
    /\ LET r == stats(caches[c])
       IN  last' = [NoCall EXCEPT !.op = "stats", !.c = c, !.stats = r.ret,
                !.raised = r.raised]
    /\ scen' = 0
    /\ UNCHANGED <<caches, accessOrder, lastPut>>
    /\ UNCHANGED <<threadVars, jobVars, adapter, verdict, memo, script>>

\* no job has been submitted and no query made
\* a key that has not been put since the cache was constructed or cleared
NoMemo == [live |-> FALSE]

NoMemos == [k \in Keys |-> NoMemo]

\* the demonstration script has not been started
NoScript == [pc |-> "none"]

\* no candidate classified yet
NoVerdict == [rl_action |-> "none"]

\* no call of the gateway adapter made yet
NotCalled == [outcome |-> "none"]

NoAdapterCalls == [fit |-> NotCalled, checks |-> NotCalled]

NoJobs ==
    /\ jobs = <<>>
    /\ candidates = <<>>
    /\ runs = <<>>

\* One LRUCache object of any capacity, freshly constructed
Init ==
    /\ \E n \in 1..MaxSize : caches = [c \in {"lru"} |-> LRUCache(n)]
    /\ last = NoCall
    /\ accessOrder = [c \in {"lru"} |-> <<>>]
    /\ lastPut = [c \in {"lru"} |-> [k \in Keys |-> None]]
    /\ scen = 0
    /\ threads = <<>>
    /\ getCalls = 0
    /\ cleared = FALSE
    /\ NoJobs
    /\ adapter = NoAdapterCalls
    /\ verdict = NoVerdict
    /\ memo = NoMemos
    /\ script = NoScript

Next ==
    \/ \E c \in DOMAIN caches, key \in Keys : CallGet(c, key)
    \/ \E c \in DOMAIN caches, key \in Keys, value \in Values : CallPut(c, key, value)
    \/ \E c \in DOMAIN caches : CallClear(c)
    \/ \E c \in DOMAIN caches : CallStats(c)

Spec == Init /\ [][Next]_vars

\* ------------------------------------------------------------------------
\* Job executions calling into one shared cache object from several threads.
\* The class takes no lock: a thread switch can fall between any two
\* statements of a method, and between the load and the store of "+= 1".
\* A position is named after the line of cache.py about to be executed.
\* ------------------------------------------------------------------------
Threads == 1..NumThreads
ConcKeys == 1..NumConcKeys
\* the results the job executions store
ConcValues == {1}

Idle == [pc |-> "idle", c |-> "none", key |-> NoKey, value |-> None, tmp |-> 0,
         evicted_key |-> NoKey]

At(t, pc) == threads[t].pc = pc

Goto(t, pc) == threads' = [threads EXCEPT ![t].pc = pc]

ghostVars == <<accessOrder, lastPut, scen, jobVars, adapter, verdict, memo, script>>

\* the call returns to the thread (what it returns is not kept here)
Return(t, op) ==
    /\ threads' = [threads EXCEPT ![t] = Idle]
    /\ last' = [NoCall EXCEPT !.op = op, !.c = threads[t].c]

\* the call leaves the method with an exception
Raise(t, op, exc) ==
    /\ threads' = [threads EXCEPT ![t] = Idle]
    /\ last' = [NoCall EXCEPT !.op = op, !.c = threads[t].c, !.raised = exc]

BeginGet(t, c, key) ==
    /\ At(t, "idle") /\ getCalls < MaxConcGets
    /\ threads' = [threads EXCEPT ![t] = [Idle EXCEPT !.pc = "get30", !.c = c, !.key = key]]
    /\ getCalls' = getCalls + 1
    /\ UNCHANGED <<caches, last, ghostVars, cleared>>

\* if key in self.cache:
Get30(t) ==
    /\ At(t, "get30")
    /\ Goto(t, IF Contains(caches[threads[t].c].cache, threads[t].key)
               THEN "get31" ELSE "get36")
    /\ UNCHANGED <<caches, last, ghostVars, getCalls, cleared>>

\* self.hits += 1 (load)
Get31Load(t) ==
    /\ At(t, "get31")
    /\ threads' = [threads EXCEPT ![t].pc = "get31s", ![t].tmp = caches[threads[t].c].hits]
    /\ UNCHANGED <<caches, last, ghostVars, getCalls, cleared>>

\* self.hits += 1 (store)
Get31Store(t) ==
    /\ At(t, "get31s")
    /\ caches' = [caches EXCEPT ![threads[t].c].hits = threads[t].tmp + 1]
    /\ threads' = [threads EXCEPT ![t].pc = "get33", ![t].tmp = 0]
    /\ UNCHANGED <<last, ghostVars, getCalls, cleared>>

\* self.cache.move_to_end(key)
Get33(t) ==
    /\ At(t, "get33")
    /\ LET c == threads[t].c
           key == threads[t].key
       IN  IF Contains(caches[c].cache, key)
           THEN /\ caches' = [caches EXCEPT ![c].cache = MoveToEnd(@, key)]
                /\ Goto(t, "get34")
                /\ UNCHANGED last
           ELSE /\ Raise(t, "get", "KeyError")
                /\ UNCHANGED caches
    /\ UNCHANGED <<ghostVars, getCalls, cleared>>

\* return self.cache[key]
Get34(t) ==
    /\ At(t, "get34")
    /\ LET c == threads[t].c
           key == threads[t].key
       IN  IF Contains(caches[c].cache, key)
           THEN Return(t, "get")
           ELSE Raise(t, "get", "KeyError")
    /\ UNCHANGED <<caches, ghostVars, getCalls, cleared>>

\* self.misses += 1 (load)
Get36Load(t) ==
    /\ At(t, "get36")
    /\ threads' = [threads EXCEPT ![t].pc = "get36s", ![t].tmp = caches[threads[t].c].misses]
    /\ UNCHANGED <<caches, last, ghostVars, getCalls, cleared>>

\* self.misses += 1 (store); return None
Get36Store(t) ==
    /\ At(t, "get36s")
    /\ caches' = [caches EXCEPT ![threads[t].c].misses = threads[t].tmp + 1]
    /\ Return(t, "get")
    /\ UNCHANGED <<ghostVars, getCalls, cleared>>

BeginPut(t, c, key, value) ==
    /\ At(t, "idle")
    /\ threads' = [threads EXCEPT ![t] =
                      [Idle EXCEPT !.pc = "put41", !.c = c, !.key = key, !.value = value]]
    /\ UNCHANGED <<caches, last, ghostVars, getCalls, cleared>>

\* if key in self.cache:
Put41(t) ==
    /\ At(t, "put41")
    /\ Goto(t, IF Contains(caches[threads[t].c].cache, threads[t].key)
               THEN "put43" ELSE "put46")
    /\ UNCHANGED <<caches, last, ghostVars, getCalls, cleared>>

\* self.cache.move_to_end(key)
Put43(t) ==
    /\ At(t, "put43")
    /\ LET c == threads[t].c
           key == threads[t].key
       IN  IF Contains(caches[c].cache, key)
           THEN /\ caches' = [caches EXCEPT ![c].cache = MoveToEnd(@, key)]
                /\ Goto(t, "put52")
                /\ UNCHANGED last
           ELSE /\ Raise(t, "put", "KeyError")
                /\ UNCHANGED caches
    /\ UNCHANGED <<ghostVars, getCalls, cleared>>

\* if len(self.cache) >= self.maxsize:
Put46(t) ==
    /\ At(t, "put46")
    /\ Goto(t, IF Len(caches[threads[t].c].cache) >= caches[threads[t].c].maxsize
               THEN "put48" ELSE "put52")
    /\ UNCHANGED <<caches, last, ghostVars, getCalls, cleared>>

\* evicted_key = next(iter(self.cache))
Put48(t) ==
    /\ At(t, "put48")
    /\ LET od == caches[threads[t].c].cache
       IN  IF od = <<>>
           THEN Raise(t, "put", "StopIteration")
           ELSE /\ threads' = [threads EXCEPT ![t].pc = "put49",
                                              ![t].evicted_key = FirstKey(od)]
                /\ UNCHANGED last
    /\ UNCHANGED <<caches, ghostVars, getCalls, cleared>>

\* self.cache.pop(evicted_key)
Put49(t) ==
    /\ At(t, "put49")
    /\ LET c == threads[t].c
           evicted_key == threads[t].evicted_key
       IN  IF Contains(caches[c].cache, evicted_key)
           THEN /\ caches' = [caches EXCEPT ![c].cache = Pop(@, evicted_key)]
                /\ Goto(t, "put52")
                /\ UNCHANGED last
           ELSE /\ Raise(t, "put", "KeyError")
                /\ UNCHANGED caches
    /\ UNCHANGED <<ghostVars, getCalls, cleared>>

\* self.cache[key] = value
Put52(t) ==
    /\ At(t, "put52")
    /\ caches' = [caches EXCEPT ![threads[t].c].cache =
                     SetItem(@, threads[t].key, threads[t].value)]
    /\ Return(t, "put")
    /\ UNCHANGED <<ghostVars, getCalls, cleared>>

BeginClear(t, c) ==
    /\ At(t, "idle")
    /\ threads' = [threads EXCEPT ![t] = [Idle EXCEPT !.pc = "clear56", !.c = c]]
    /\ cleared' = TRUE
    /\ UNCHANGED <<caches, last, ghostVars, getCalls>>

\* self.cache.clear()
Clear56(t) ==
    /\ At(t, "clear56")
    /\ caches' = [caches EXCEPT ![threads[t].c].cache = <<>>]
    /\ Goto(t, "clear57")
    /\ UNCHANGED <<last, ghostVars, getCalls, cleared>>

\* self.hits = 0
Clear57(t) ==
    /\ At(t, "clear57")
    /\ caches' = [caches EXCEPT ![threads[t].c].hits = 0]
    /\ Goto(t, "clear58")
    /\ UNCHANGED <<last, ghostVars, getCalls, cleared>>

\* self.misses = 0
Clear58(t) ==
    /\ At(t, "clear58")
    /\ caches' = [caches EXCEPT ![threads[t].c].misses = 0]
    /\ Return(t, "clear")
    /\ UNCHANGED <<ghostVars, getCalls, cleared>>

BeginStats(t, c) ==
    /\ At(t, "idle")
    /\ threads' = [threads EXCEPT ![t] = [Idle EXCEPT !.pc = "stats62", !.c = c]]
    /\ UNCHANGED <<caches, last, ghostVars, getCalls, cleared>>

\* total_requests = self.hits + self.misses
Stats62(t) ==
    /\ At(t, "stats62")
    /\ threads' = [threads EXCEPT ![t].pc = "stats63",
                      ![t].tmp = caches[threads[t].c].hits + caches[threads[t].c].misses]
    /\ UNCHANGED <<caches, last, ghostVars, getCalls, cleared>>

\* hit_rate = self.hits / total_requests if total_requests > 0 else 0.0
Stats63(t) ==
    /\ At(t, "stats63")
    /\ threads' = [threads EXCEPT ![t].pc = "stats64", ![t].tmp = 0]
    /\ UNCHANGED <<caches, last, ghostVars, getCalls, cleared>>

\* return {"size": ..., "maxsize": ..., "hits": ..., "misses": ..., "hit_rate": ...,
\*         "usage_pct": len(self.cache) / self.maxsize * 100}
Stats64(t) ==
    /\ At(t, "stats64")
    /\ IF caches[threads[t].c].maxsize = 0
       THEN Raise(t, "stats", "ZeroDivisionError")
       ELSE Return(t, "stats")
    /\ UNCHANGED <<caches, ghostVars, getCalls, cleared>>

InitConc ==
    /\ \E n \in 1..MaxSize : caches = [c \in {"lru"} |-> LRUCache(n)]
    /\ last = NoCall
    /\ accessOrder = [c \in {"lru"} |-> <<>>]
    /\ lastPut = [c \in {"lru"} |-> [k \in Keys |-> None]]
    /\ scen = 0
    /\ threads = [t \in Threads |-> Idle]
    /\ getCalls = 0
    /\ cleared = FALSE
    /\ NoJobs
    /\ adapter = NoAdapterCalls
    /\ verdict = NoVerdict
    /\ memo = NoMemos
    /\ script = NoScript

NextConc ==
    \/ \E t \in Threads, c \in DOMAIN caches, key \in ConcKeys : BeginGet(t, c, key)
    \/ \E t \in Threads : Get30(t)
    \/ \E t \in Threads : Get31Load(t)
    \/ \E t \in Threads : Get31Store(t)
    \/ \E t \in Threads : Get33(t)
    \/ \E t \in Threads : Get34(t)
    \/ \E t \in Threads : Get36Load(t)
    \/ \E t \in Threads : Get36Store(t)
    \/ \E t \in Threads, c \in DOMAIN caches, key \in ConcKeys, value \in ConcValues :
          BeginPut(t, c, key, value)
    \/ \E t \in Threads : Put41(t)
    \/ \E t \in Threads : Put43(t)
    \/ \E t \in Threads : Put46(t)
    \/ \E t \in Threads : Put48(t)
    \/ \E t \in Threads : Put49(t)
    \/ \E t \in Threads : Put52(t)
    \/ \E t \in Threads, c \in DOMAIN caches : BeginClear(t, c)
    \/ \E t \in Threads : Clear56(t)
    \/ \E t \in Threads : Clear57(t)
    \/ \E t \in Threads : Clear58(t)
    \/ \E t \in Threads, c \in DOMAIN caches : BeginStats(t, c)
    \/ \E t \in Threads : Stats62(t)
    \/ \E t \in Threads : Stats63(t)
    \/ \E t \in Threads : Stats64(t)

SpecConc == InitConc /\ [][NextConc]_vars

\* ------------------------------------------------------------------------
\* The job store and the job pipeline (core/jobs.py and api/routes/run.py are
\* not among the sources: both follow sections 3, 4.3 and 4.4 of the design)
\* ------------------------------------------------------------------------
JobIds == 1..NumJobs
Datasets == 1..NumDatasets

Stages == <<"loading", "preprocessing", "bls_search", "candidate_analysis", "completed">>

StageIndex(stage) == CHOOSE i \in DOMAIN Stages : Stages[i] = stage

\* progress_pct at the start of a stage: proportional to the stage's index
ProgressOf(stage) == (StageIndex(stage) * 100) \div Len(Stages)

\* a string field that holds None
NoneStr == "None"

NoJob == [job_id |-> 0, status |-> "none", stage |-> "", progress |-> 0, message |-> ""]

\* job_store.create_job
create_job(job_id) ==
    [job_id |-> job_id, status |-> "queued", stage |-> "", progress |-> 0,
     message |-> "Job queued"]

\* job_store.get_job: the record, or nothing for an unknown identifier
get_job(job_id) == IF job_id \in DOMAIN jobs THEN jobs[job_id] ELSE NoJob

\* job_store.get_candidates: the stored list, empty while nothing is stored
get_candidates(job_id) ==
    IF job_id \in DOMAIN candidates THEN candidates[job_id] ELSE <<>>

\* hash_array: hashlib.md5(arr.tobytes()).hexdigest(), the digest of the bytes of
\* a series; distinct contents are taken to have distinct digests
hash_array(arr) == <<"md5", arr>>

\* the external preprocessing function: the cleaned series of a raw series,
\* named by the dataset it was cleaned from
preprocess_pipeline(raw) == raw

\* the external period search: the raw candidates found in a cleaned series, at
\* most max_candidates of them, each with its signal-to-noise and with the flags
\* the remote validation service computes for it; only series 1 holds a signal
extract_bls_features(cleaned, max_candidates) ==
    LET found == IF cleaned = 1
                 THEN <<[snr |-> 10, flags |-> "pass"], [snr |-> 3, flags |-> "fail"],
                        [snr |-> 2, flags |-> "pass"]>>
                 ELSE <<>>
    IN  SubSeq(found, 1, IF Len(found) < max_candidates THEN Len(found) ELSE max_candidates)

\* a classifier that looks at the signal-to-noise only
classify_snrOnly(snr, min_snr, flags) ==
    IF snr < min_snr THEN "reject"
    ELSE IF flags = "null" /\ snr - min_snr <= HumanReviewMargin THEN "human_review"
    ELSE "accept"

\* Disposition Classifier: signal-to-noise, threshold and validation flags to
\* one disposition
classify(snr, min_snr, flags) ==
    IF snr < min_snr \/ flags = "fail" THEN "reject"
    ELSE IF flags = "null" /\ snr - min_snr <= HumanReviewMargin THEN "human_review"
    ELSE "accept"

\* The outcome of the try block of an adapter call: "ok" when requests.post
\* answered in time with a success status and a JSON body, else the exception
\* raised: Timeout (no answer within TIMEOUT seconds), ConnectionError
\* (transport), HTTPError (raise_for_status), ValueError (response.json())
RequestOutcomes == {"ok", "Timeout", "ConnectionError", "HTTPError", "ValueError"}

\* the classes an exception is an instance of (requests.exceptions)
ExceptionBases(e) ==
    IF e \in {"Timeout", "ConnectionError", "HTTPError"}
    THEN {e, "RequestException", "Exception"}
    ELSE IF e \in {"KeyboardInterrupt", "SystemExit"} THEN {e, "BaseException"}
    ELSE {e, "Exception"}

IsInstance(e, cls) == cls \in ExceptionBases(e)

\* float("nan")
NaN == 0 - 1

\* float(np.median(time)) of a sorted series of odd length; nan for an empty one
Median(time) == IF time = <<>> THEN NaN ELSE time[(Len(time) + 1) \div 2]

\* _mock_fit_result(time, message): the fallback fit (its other fields are constants)
mock_fit_result(time, message) ==
    [t0_bjd |-> Median(time), snr |-> 10, success |-> FALSE, message |-> message]

\* fit_transit with the except clause of Timeout only
fit_transit_onlyTimeout(time, outcome, response) ==
    IF outcome = "ok" THEN [returns |-> TRUE, raised |-> "none", result |-> response]
    ELSE IF IsInstance(outcome, "Timeout")
    THEN [returns |-> TRUE, raised |-> "none",
          result |-> mock_fit_result(time, <<"API timeout">>)]
    ELSE [returns |-> TRUE, raised |-> outcome, result |-> None]

\* fit_transit whose request carries no timeout: when the service does not
\* answer, the call never comes back
fit_transit_noTimeout(time, outcome, response) ==
    IF outcome = "ok" THEN [returns |-> TRUE, raised |-> "none", result |-> response]
    ELSE IF IsInstance(outcome, "Timeout")
    THEN [returns |-> FALSE, raised |-> "none", result |-> None]
    ELSE IF IsInstance(outcome, "RequestException")
    THEN [returns |-> TRUE, raised |-> "none",
          result |-> mock_fit_result(time, <<"API error", outcome>>)]
    ELSE IF IsInstance(outcome, "Exception")
    THEN [returns |-> TRUE, raised |-> "none",
          result |-> mock_fit_result(time, <<"Error", outcome>>)]
    ELSE [returns |-> TRUE, raised |-> outcome, result |-> None]

\* fit_transit without except clauses: every failure of the request leaves it
fit_transit_noFallback(time, outcome, response) ==
    IF outcome = "ok" THEN [returns |-> TRUE, raised |-> "none", result |-> response]
    ELSE [returns |-> TRUE, raised |-> outcome, result |-> None]

\* fit_transit: the remote result, or the labelled fallback when the call fails;
\* raised names the exception that leaves the function, "none" when it returns
fit_transit(time, outcome, response) ==
    IF outcome = "ok" THEN [returns |-> TRUE, raised |-> "none", result |-> response]
    ELSE IF IsInstance(outcome, "Timeout")
    THEN [returns |-> TRUE, raised |-> "none",
          result |-> mock_fit_result(time, <<"API timeout">>)]
    ELSE IF IsInstance(outcome, "RequestException")
    THEN [returns |-> TRUE, raised |-> "none",
          result |-> mock_fit_result(time, <<"API error", outcome>>)]
    ELSE IF IsInstance(outcome, "Exception")
    THEN [returns |-> TRUE, raised |-> "none",
          result |-> mock_fit_result(time, <<"Error", outcome>>)]
    ELSE [returns |-> TRUE, raised |-> outcome, result |-> None]

\* _mock_checks_result(): the fallback checks
mock_checks_result ==
    [odd_even_depth_delta_pct |-> Ratio(5, 2),
     secondary_eclipse_snr |-> Ratio(6, 5),
     v_vs_u_shape_score |-> Ratio(17, 20),
     centroid_shift_proxy |-> None,
     stellar_density_consistent |-> TRUE]

\* run_checks: the remote checks, or the fallback checks when the call fails
run_checks(outcome, response) ==
    IF outcome = "ok" THEN [returns |-> TRUE, raised |-> "none", result |-> response]
    ELSE IF IsInstance(outcome, "Timeout")
    THEN [returns |-> TRUE, raised |-> "none", result |-> mock_checks_result]
    ELSE IF IsInstance(outcome, "RequestException")
    THEN [returns |-> TRUE, raised |-> "none", result |-> mock_checks_result]
    ELSE IF IsInstance(outcome, "Exception")
    THEN [returns |-> TRUE, raised |-> "none", result |-> mock_checks_result]
    ELSE [returns |-> TRUE, raised |-> outcome, result |-> None]

\* the outcomes of a gateway call that the pipeline is run against
GatewayOutcomes == {"ok", "Timeout"}

\* the time stamps of a series handed to the adapter
SeriesTime == <<1, 2, 3>>

\* the fit the remote service returns for a raw candidate
FitResponseOf(bls_cand) ==
    [t0_bjd |-> Median(SeriesTime), snr |-> bls_cand.snr, success |-> TRUE,
     message |-> <<"ok">>]

\* the checks the remote service returns for a raw candidate with the given flags
ChecksResponseOf(flags) ==
    [mock_checks_result EXCEPT !.centroid_shift_proxy = 1,
                               !.stellar_density_consistent = (flags = "pass")]

\* the validation flags of a checks result, as the classifier reads them: null
\* when a check could not be computed
FlagsOf(checks) ==
    IF checks.centroid_shift_proxy = None THEN "null"
    ELSE IF checks.stellar_density_consistent THEN "pass"
    ELSE "fail"

NoRun == [pc |-> "none", dataset_id |-> 0, cleaned |-> 0, raw |-> <<>>, acc |-> <<>>]

RECURSIVE CountAction(_, _)
\* sum(1 for c in candidates_raw if c["rl_action"] == action)
CountAction(cands, action) ==
    IF cands = <<>> THEN 0
    ELSE (IF Head(cands).rl_action = action THEN 1 ELSE 0) + CountAction(Tail(cands), action)

\* get_status that reports the stage label in the status field
get_status_stageAsStatus(job_id) ==
    LET job == get_job(job_id)
    IN  IF job = NoJob
        THEN [code |-> 404, detail |-> "Job not found"]
        ELSE [code |-> 200,
              job_id |-> job.job_id,
              status |-> job.stage,
              progress_pct |-> job.progress,
              current_step |-> job.stage,
              error |-> IF job.status = "failed" THEN job.message
                        ELSE NoneStr]

\* get_status that reports no progress for a job that is not running or completed
get_status_progressReset(job_id) ==
    LET job == get_job(job_id)
    IN  IF job = NoJob
        THEN [code |-> 404, detail |-> "Job not found"]
        ELSE [code |-> 200,
              job_id |-> job.job_id,
              status |-> job.status,
              progress_pct |-> IF job.status \in {"running", "completed"}
                               THEN job.progress ELSE 0,
              current_step |-> job.stage,
              error |-> IF job.status = "failed" THEN job.message
                        ELSE NoneStr]

\* get_status with the test for the error field inverted
get_status_errorInverted(job_id) ==
    LET job == get_job(job_id)
    IN  IF job = NoJob
        THEN [code |-> 404, detail |-> "Job not found"]
        ELSE [code |-> 200,
              job_id |-> job.job_id,
              status |-> job.status,
              progress_pct |-> job.progress,
              current_step |-> job.stage,
              error |-> IF job.status # "failed" THEN job.message
                        ELSE NoneStr]

\* get_status that reports the status in the current_step field
get_status_stepAsStatus(job_id) ==
    LET job == get_job(job_id)
    IN  IF job = NoJob
        THEN [code |-> 404, detail |-> "Job not found"]
        ELSE [code |-> 200,
              job_id |-> job.job_id,
              status |-> job.status,
              progress_pct |-> job.progress,
              current_step |-> job.status,
              error |-> IF job.status = "failed" THEN job.message
                        ELSE NoneStr]

\* get_status that reports the message as error whatever the status
get_status_errorAlways(job_id) ==
    LET job == get_job(job_id)
    IN  IF job = NoJob
        THEN [code |-> 404, detail |-> "Job not found"]
        ELSE [code |-> 200,
              job_id |-> job.job_id,
              status |-> job.status,
              progress_pct |-> job.progress,
              current_step |-> job.stage,
              error |-> job.message]

\* GET /api/status/{job_id}
get_status(job_id) ==
    LET job == get_job(job_id)
    IN  IF job = NoJob
        THEN [code |-> 404, detail |-> "Job not found"]
        ELSE [code |-> 200,
              job_id |-> job.job_id,
              status |-> job.status,
              progress_pct |-> job.progress,
              current_step |-> job.stage,
              error |-> IF job.status = "failed" THEN job.message
                        ELSE NoneStr]

\* get_results that counts the label "rejected", which no candidate carries
get_results_wrongLabel(job_id) ==
    LET job == get_job(job_id)
        candidates_raw == get_candidates(job_id)
    IN  IF job = NoJob
        THEN [code |-> 404, detail |-> "Job not found"]
        ELSE [code |-> 200,
              job_id |-> job_id,
              candidates |-> candidates_raw,
              total_candidates |-> Len(candidates_raw),
              accepted_count |-> CountAction(candidates_raw, "accept"),
              rejected_count |-> CountAction(candidates_raw, "rejected"),
              human_review_count |->
                  CountAction(candidates_raw, "human_review"),
              message |-> "Found candidates"]

\* get_results without the test for a missing job
get_results_noCheck(job_id) ==
    LET candidates_raw == get_candidates(job_id)
    IN  [code |-> 200,
         job_id |-> job_id,
         candidates |-> candidates_raw,
         total_candidates |-> Len(candidates_raw),
         accepted_count |-> CountAction(candidates_raw, "accept"),
         rejected_count |-> CountAction(candidates_raw, "reject"),
         human_review_count |-> CountAction(candidates_raw, "human_review"),
         message |-> "Found candidates"]

\* GET /api/results/{job_id}
get_results(job_id) ==
    LET job == get_job(job_id)
        candidates_raw == get_candidates(job_id)
    IN  IF job = NoJob
        THEN [code |-> 404, detail |-> "Job not found"]
        ELSE [code |-> 200,
              job_id |-> job_id,
              candidates |-> candidates_raw,
              total_candidates |-> Len(candidates_raw),
              accepted_count |-> CountAction(candidates_raw, "accept"),
              rejected_count |-> CountAction(candidates_raw, "reject"),
              human_review_count |->
                  CountAction(candidates_raw, "human_review"),
              message |-> "Found candidates"]

cacheSide == <<last, accessOrder, lastPut, scen, threadVars, adapter, verdict, memo, script>>

\* job_store.update_job
update_job(job_id, status, stage, progress, message) ==
    jobs' = [jobs EXCEPT ![job_id] = [job_id |-> job_id, status |-> status, stage |-> stage,
                                      progress |-> progress, message |-> message]]

\* the pipeline records the stage it is about to start
EnterStage(job_id, stage) ==
    /\ update_job(job_id, "running", stage, ProgressOf(stage), jobs[job_id].message)
    /\ runs' = [runs EXCEPT ![job_id].pc = stage]

\* except Exception: the job fails with the cause, the remaining stages do not run
Fail(job_id, cause) ==
    /\ update_job(job_id, "failed", jobs[job_id].stage, jobs[job_id].progress, cause)
    /\ runs' = [runs EXCEPT ![job_id] = [NoRun EXCEPT !.pc = "done"]]

\* POST /api/run: the job is created queued and its identifier returned at once
Submit(dataset_id) ==
    /\ Len(jobs) < NumJobs
    /\ LET job_id == Len(jobs) + 1
       IN  /\ jobs' = Append(jobs, create_job(job_id))
           /\ runs' = Append(runs, [NoRun EXCEPT !.pc = "queued", !.dataset_id = dataset_id])
    /\ UNCHANGED <<caches, cacheSide, candidates>>

\* the background execution starts: running, stage loading
StartRun(job_id) ==
    /\ runs[job_id].pc = "queued"
    /\ EnterStage(job_id, "loading")
    /\ UNCHANGED <<caches, cacheSide, candidates>>

\* stage 1: the raw series is loaded, or the dataset is missing or malformed
Loading(job_id, ok) ==
    /\ runs[job_id].pc = "loading"
    /\ IF ok THEN EnterStage(job_id, "preprocessing")
             ELSE Fail(job_id, "Dataset not found")
    /\ UNCHANGED <<caches, cacheSide, candidates>>

\* a lookup whose hit enters the next stage without the fraction of the stage
\* it skipped
PreprocessLookup_progressByCost(job_id) ==
    /\ runs[job_id].pc = "preprocessing"
    /\ LET r == get(caches["preprocess"], hash_array(runs[job_id].dataset_id))
       IN  /\ caches' = [caches EXCEPT !["preprocess"] = r.self]
           /\ IF r.ret # None
              THEN /\ update_job(job_id, "running", "bls_search", ProgressOf("preprocessing"),
                                 jobs[job_id].message)
                   /\ runs' = [runs EXCEPT ![job_id].pc = "bls_search",
                                           ![job_id].cleaned = r.ret]
              ELSE /\ runs' = [runs EXCEPT ![job_id].pc = "preprocessing_miss"]
                   /\ UNCHANGED jobs
    /\ UNCHANGED <<cacheSide, candidates>>

\* stage 2: the preprocessing cache is asked for the cleaned series
PreprocessLookup(job_id) ==
    /\ runs[job_id].pc = "preprocessing"
    /\ LET r == get(caches["preprocess"], hash_array(runs[job_id].dataset_id))
       IN  /\ caches' = [caches EXCEPT !["preprocess"] = r.self]
           /\ IF r.ret # None
              THEN /\ update_job(job_id, "running", "bls_search", ProgressOf("bls_search"),
                                 jobs[job_id].message)
                   /\ runs' = [runs EXCEPT ![job_id].pc = "bls_search",
                                           ![job_id].cleaned = r.ret]
              ELSE /\ runs' = [runs EXCEPT ![job_id].pc = "preprocessing_miss"]
                   /\ UNCHANGED jobs
    /\ UNCHANGED <<cacheSide, candidates>>

\* stage 2 on a miss: the series is preprocessed and the result stored in the cache
PreprocessCompute(job_id, ok) ==
    /\ runs[job_id].pc = "preprocessing_miss"
    /\ IF ok
       THEN LET cleaned == preprocess_pipeline(runs[job_id].dataset_id)
                r == put(caches["preprocess"], hash_array(runs[job_id].dataset_id), cleaned)
            IN  /\ caches' = [caches EXCEPT !["preprocess"] = r.self]
                /\ update_job(job_id, "running", "bls_search", ProgressOf("bls_search"),
                              jobs[job_id].message)
                /\ runs' = [runs EXCEPT ![job_id].pc = "bls_search",
                                        ![job_id].cleaned = cleaned]
       ELSE /\ Fail(job_id, "Preprocessing failed")
            /\ UNCHANGED caches
    /\ UNCHANGED <<cacheSide, candidates>>

\* stage 3: the period-search cache is asked for the raw candidates
BlsLookup(job_id) ==
    /\ runs[job_id].pc = "bls_search"
    /\ LET r == get(caches["bls"], hash_array(runs[job_id].cleaned))
       IN  /\ caches' = [caches EXCEPT !["bls"] = r.self]
           /\ IF r.ret # None
              THEN /\ update_job(job_id, "running", "candidate_analysis",
                                 ProgressOf("candidate_analysis"), jobs[job_id].message)
                   /\ runs' = [runs EXCEPT ![job_id].pc = "candidate_analysis",
                                           ![job_id].raw =
                                               extract_bls_features(r.ret, MaxCandidates)]
              ELSE /\ runs' = [runs EXCEPT ![job_id].pc = "bls_search_miss"]
                   /\ UNCHANGED jobs
    /\ UNCHANGED <<cacheSide, candidates>>

\* stage 3 on a miss: the period search runs and its result is stored in the cache
BlsCompute(job_id, ok) ==
    /\ runs[job_id].pc = "bls_search_miss"
    /\ IF ok
       THEN LET r == put(caches["bls"], hash_array(runs[job_id].cleaned),
                         runs[job_id].cleaned)
            IN  /\ caches' = [caches EXCEPT !["bls"] = r.self]
                /\ update_job(job_id, "running", "candidate_analysis",
                              ProgressOf("candidate_analysis"), jobs[job_id].message)
                /\ runs' = [runs EXCEPT ![job_id].pc = "candidate_analysis",
                                        ![job_id].raw =
                                            extract_bls_features(runs[job_id].cleaned,
                                                                 MaxCandidates)]
       ELSE /\ Fail(job_id, "Period search failed")
            /\ UNCHANGED caches
    /\ UNCHANGED <<cacheSide, candidates>>

\* candidate analysis that stores each candidate as soon as it is classified
AnalyseCandidate_streaming(job_id, outcome) ==
    /\ runs[job_id].pc = "candidate_analysis"
    /\ Len(runs[job_id].acc) < Len(runs[job_id].raw)
    /\ LET i == Len(runs[job_id].acc) + 1
           bls_cand == runs[job_id].raw[i]
           fit == fit_transit(SeriesTime, outcome,
                              IF outcome = "ok" THEN FitResponseOf(bls_cand) ELSE None)
           checks == run_checks(outcome,
                                IF outcome = "ok" THEN ChecksResponseOf(bls_cand.flags)
                                ELSE None)
       IN  IF ~fit.returns \/ ~checks.returns
           THEN /\ runs' = [runs EXCEPT ![job_id].pc = "blocked"]
                /\ UNCHANGED <<caches, cacheSide, jobs, candidates>>
           ELSE IF fit.raised # "none" \/ checks.raised # "none"
           THEN /\ Fail(job_id, IF fit.raised # "none" THEN fit.raised ELSE checks.raised)
                /\ UNCHANGED <<caches, cacheSide, candidates>>
           ELSE LET flags == FlagsOf(checks.result)
                    cand == [candidate_id |-> i, snr |-> bls_cand.snr,
                             fit_success |-> fit.result.success,
                             fit_message |-> fit.result.message,
                             flags |-> flags,
                             rl_action |-> classify(bls_cand.snr, MinSnr, flags)]
                IN  /\ runs' = [runs EXCEPT ![job_id].acc = Append(@, cand)]
                    /\ candidates' = (job_id :> Append(runs[job_id].acc, cand)) @@ candidates
                    /\ UNCHANGED <<caches, cacheSide, jobs>>

\* stage 4, one raw candidate: fit, checks, disposition; kept in memory only.
\* An exception that leaves an adapter call is an error of the stage, and an
\* adapter call that never comes back blocks the execution.
AnalyseCandidate(job_id, outcome) ==
    /\ runs[job_id].pc = "candidate_analysis"
    /\ Len(runs[job_id].acc) < Len(runs[job_id].raw)
    /\ LET i == Len(runs[job_id].acc) + 1
           bls_cand == runs[job_id].raw[i]
           fit == fit_transit(SeriesTime, outcome,
                              IF outcome = "ok" THEN FitResponseOf(bls_cand) ELSE None)
           checks == run_checks(outcome,
                                IF outcome = "ok" THEN ChecksResponseOf(bls_cand.flags)
                                ELSE None)
       IN  IF ~fit.returns \/ ~checks.returns
           THEN /\ runs' = [runs EXCEPT ![job_id].pc = "blocked"]
                /\ UNCHANGED <<caches, cacheSide, jobs, candidates>>
           ELSE IF fit.raised # "none" \/ checks.raised # "none"
           THEN /\ Fail(job_id, IF fit.raised # "none" THEN fit.raised ELSE checks.raised)
                /\ UNCHANGED <<caches, cacheSide, candidates>>
           ELSE LET flags == FlagsOf(checks.result)
                    cand == [candidate_id |-> i, snr |-> bls_cand.snr,
                             fit_success |-> fit.result.success,
                             fit_message |-> fit.result.message,
                             flags |-> flags,
                             rl_action |-> classify(bls_cand.snr, MinSnr, flags)]
                IN  /\ runs' = [runs EXCEPT ![job_id].acc = Append(@, cand)]
                    /\ UNCHANGED <<caches, cacheSide, jobs, candidates>>

\* stage 4: an error that is not a gateway failure
AnalysisError(job_id) ==
    /\ runs[job_id].pc = "candidate_analysis"
    /\ Fail(job_id, "Candidate analysis failed")
    /\ UNCHANGED <<caches, cacheSide, candidates>>

\* stage 5: the full list is stored, progress 100, status completed
Complete(job_id) ==
    /\ runs[job_id].pc = "candidate_analysis"
    /\ Len(runs[job_id].acc) = Len(runs[job_id].raw)
    /\ candidates' = (job_id :> runs[job_id].acc) @@ candidates
    /\ update_job(job_id, "completed", "completed", ProgressOf("completed"),
                  "Detection completed")
    /\ runs' = [runs EXCEPT ![job_id] = [NoRun EXCEPT !.pc = "done"]]
    /\ UNCHANGED <<caches, cacheSide>>

\* a client polls the status of some job id: the handler answers
\* get_status(job_id) (or 404) and writes nothing
PollStatus ==
    /\ {job_id \in JobIds : get_status(job_id).code \in {200, 404}} # {}
    /\ UNCHANGED vars

\* a client asks for the results of some job id: the handler answers
\* get_results(job_id) (or 404) and writes nothing
FetchResults ==
    /\ {job_id \in JobIds : get_results(job_id).code \in {200, 404}} # {}
    /\ UNCHANGED vars

\* The service after start-up: both global caches empty, no job submitted
InitJobs ==
    /\ caches = [c \in {"preprocess", "bls"} |->
                    IF c = "preprocess" THEN LRUCache(PreprocessMaxsize)
                    ELSE LRUCache(BlsMaxsize)]
    /\ last = NoCall
    /\ accessOrder = [c \in {"preprocess", "bls"} |-> <<>>]
    /\ lastPut = [c \in {"preprocess", "bls"} |-> [k \in Keys |-> None]]
    /\ scen = 0
    /\ threads = <<>>
    /\ getCalls = 0
    /\ cleared = FALSE
    /\ jobs = <<>>
    /\ candidates = <<>>
    /\ runs = <<>>
    /\ adapter = NoAdapterCalls
    /\ verdict = NoVerdict
    /\ memo = NoMemos
    /\ script = NoScript

NextJobs ==
    \/ \E dataset_id \in Datasets : Submit(dataset_id)
    \/ \E job_id \in DOMAIN jobs : StartRun(job_id)
    \/ \E job_id \in DOMAIN jobs, ok \in BOOLEAN : Loading(job_id, ok)
    \/ \E job_id \in DOMAIN jobs : PreprocessLookup(job_id)
    \/ \E job_id \in DOMAIN jobs, ok \in BOOLEAN : PreprocessCompute(job_id, ok)
    \/ \E job_id \in DOMAIN jobs : BlsLookup(job_id)
    \/ \E job_id \in DOMAIN jobs, ok \in BOOLEAN : BlsCompute(job_id, ok)
    \/ \E job_id \in DOMAIN jobs, outcome \in GatewayOutcomes :
          AnalyseCandidate(job_id, outcome)
    \/ \E job_id \in DOMAIN jobs : AnalysisError(job_id)
    \/ \E job_id \in DOMAIN jobs : Complete(job_id)
    \/ PollStatus
    \/ FetchResults

SpecJobs == InitJobs /\ [][NextJobs]_vars

\* ------------------------------------------------------------------------
\* Properties of one cache object under calls made one at a time
\* ------------------------------------------------------------------------
KeyOrder(od) == [i \in DOMAIN od |-> od[i][1]]

\* C1: after any sequence of get, put and clear calls the number of stored
\* entries never exceeds the configured maxsize.
C1_SizeWithinMaxsize ==
    \A c \in DOMAIN caches : Len(caches[c].cache) <= caches[c].maxsize

\* a put has just evicted an entry and the cache is full
C1_Witness ==
    /\ last.op = "put" /\ last.evicted_key # NoKey
    /\ Len(caches[last.c].cache) = caches[last.c].maxsize

\* C2: a put of a key that is not stored removes exactly the entry whose last
\* access (a get that hit, or a put) is the oldest when the cache holds maxsize
\* entries, and removes nothing when it holds fewer; after put A, put B, get A,
\* put C on a cache of maxsize 2 exactly A and C are stored.
C2_PutEvictsLeastRecentlyAccessed ==
    [][ /\ \A c \in DOMAIN caches :
            (last'.op = "put" /\ last'.c = c /\ last'.key \notin KeysOf(caches[c].cache))
            => LET removed == KeysOf(caches[c].cache) \ KeysOf(caches'[c].cache)
               IN  /\ last'.key \in KeysOf(caches'[c].cache)
                   /\ IF Len(caches[c].cache) = caches[c].maxsize
                      THEN removed = {Head(accessOrder[c])}
                      ELSE removed = {}
        /\ scen' = Len(Scenario) => KeysOf(caches'["lru"].cache) = {KeyA, KeyC}
      ]_vars

\* the scenario has just been run to its end, with an eviction
C2_Witness ==
    /\ scen = Len(Scenario)
    /\ last.op = "put" /\ last.evicted_key = KeyB

\* C10: a get of a stored key returns the value most recently put for it, adds one
\* to hits, leaves misses alone and makes the key the last to be evicted; a get
\* of a key that is not stored returns None, adds one to misses and leaves
\* hits, the entries and their order alone.
C10_GetHitAndMiss ==
    [][ \A c \in DOMAIN caches :
            (last'.op = "get" /\ last'.c = c)
            => LET old == caches[c]
                   new == caches'[c]
                   key == last'.key
               IN  IF key \in KeysOf(old.cache)
                   THEN /\ last'.ret = lastPut[c][key]
                        /\ new.hits = old.hits + 1
                        /\ new.misses = old.misses
                        /\ KeyOrder(new.cache) = Append(Without(KeyOrder(old.cache), key), key)
                        /\ KeyOrder(new.cache) = accessOrder'[c]
                   ELSE /\ last'.ret = None
                        /\ new.misses = old.misses + 1
                        /\ new.hits = old.hits
                        /\ new.cache = old.cache
      ]_vars

\* a get has just hit in a cache that holds two entries, after an earlier miss
C10_Witness ==
    /\ last.op = "get" /\ last.ret # None
    /\ Len(caches[last.c].cache) >= 2
    /\ caches[last.c].hits >= 1 /\ caches[last.c].misses >= 1
    /\ \E k \in Keys : lastPut[last.c][k] \notin {None, last.ret}

\* ------------------------------------------------------------------------
\* Properties of one cache object shared by concurrent job executions
\* ------------------------------------------------------------------------
\* C5: when several job executions call put concurrently on the same cache,
\* the number of stored entries never exceeds maxsize in any interleaving.
C5_ConcurrentSizeWithinMaxsize ==
    \A c \in DOMAIN caches : Cardinality(KeysOf(caches[c].cache)) <= caches[c].maxsize

\* C6: concurrent get, put, clear and stats calls behave as if made one at a
\* time: no call ends in an error, and once every call has returned each get
\* made since construction has counted exactly one hit or one miss.
C6_ConcurrentCallsAtomic ==
    /\ last.raised = "none"
    /\ ((\A t \in DOMAIN threads : threads[t].pc = "idle") /\ ~cleared)
       => \A c \in DOMAIN caches :
             caches[c].hits + caches[c].misses = getCalls

\* ------------------------------------------------------------------------
\* Properties of the jobs as the status and results queries show them
\* ------------------------------------------------------------------------
StatusMoves == {<<"queued", "running">>, <<"running", "completed">>, <<"running", "failed">>}

\* C3: the status a job reports only moves queued -> running -> completed or
\* queued -> running -> failed; it never moves back, and a completed or failed
\* job never changes status again.
C3_StatusMovesForward ==
    [][ \A j \in DOMAIN jobs' :
          \A after \in {get_status(j)'.status} :
             IF j \in DOMAIN jobs
             THEN \A before \in {get_status(j).status} :
                     after = before \/ <<before, after>> \in StatusMoves
             ELSE after = "queued"
      ]_vars

\* one job is reported completed and another failed
C3_Witness ==
    \E j1, j2 \in DOMAIN jobs :
        /\ get_status(j1).status = "completed"
        /\ get_status(j2).status = "failed"

\* C4: the progress_pct of successive status answers for a job never decreases,
\* lies in 0..100, and is 100 whenever the status is completed.
C4_ProgressMonotone ==
    [][ \A j \in DOMAIN jobs' :
          \A after \in {get_status(j)'} :
             /\ after.progress_pct \in 0..100
             /\ after.status = "completed" => after.progress_pct = 100
             /\ j \in DOMAIN jobs => get_status(j).progress_pct <= after.progress_pct
      ]_vars

\* one job is reported completed at 100 while another failed part of the way
C4_Witness ==
    \E j1, j2 \in DOMAIN jobs :
        /\ get_status(j1).status = "completed" /\ get_status(j1).progress_pct = 100
        /\ get_status(j2).status = "failed" /\ get_status(j2).progress_pct \in 1..99

\* the execution of job j has just ended on an error
EndsOnError(j) ==
    /\ runs[j].pc \in {"loading", "preprocessing_miss", "bls_search_miss", "candidate_analysis"}
    /\ runs'[j].pc = "done"
    /\ jobs'[j].status # "completed"

\* C7: an error during loading, preprocessing, period search or candidate
\* analysis makes the job failed with a non-empty message, which the status
\* query reports; no later stage runs and no candidates are stored for the job.
C7_ErrorFailsJob ==
    [][ \A j \in DOMAIN jobs :
          /\ EndsOnError(j) =>
                /\ jobs'[j].status = "failed"
                /\ jobs'[j].stage = jobs[j].stage
          /\ jobs'[j].status = "failed" =>
                /\ jobs'[j].message \notin {"", NoneStr}
                /\ get_status(j)'.error = jobs'[j].message
                /\ runs'[j].pc = "done"
                /\ get_candidates(j)' = <<>>
          /\ jobs[j].status = "failed" => jobs'[j] = jobs[j]
      ]_vars

\* a job failed during candidate analysis after a candidate had been analysed
\* in memory, while another job completed with candidates
C7_Witness ==
    \E j1, j2 \in DOMAIN jobs :
        /\ jobs[j1].status = "failed" /\ jobs[j1].stage = "candidate_analysis"
        /\ get_status(j1).error = "Candidate analysis failed"
        /\ get_results(j2).total_candidates > 0

\* C8: the candidate set of a job is written at most once, at the end of
\* candidate analysis; a results query sees no candidates while the job is queued
\* or running; once written, the set and every rl_action in it never change.
C8_CandidatesWrittenOnce ==
    [][ \A j \in DOMAIN jobs' :
          \A after \in {get_results(j)'.candidates} :
             /\ jobs'[j].status \in {"queued", "running"} => after = <<>>
             /\ (j \in DOMAIN candidates' /\ j \notin DOMAIN candidates) =>
                   /\ runs[j].pc = "candidate_analysis"
                   /\ candidates'[j] = runs[j].acc
                   /\ Len(runs[j].acc) = Len(runs[j].raw)
                   /\ jobs'[j].status = "completed"
             /\ j \in DOMAIN candidates =>
                   /\ j \in DOMAIN candidates'
                   /\ candidates'[j] = candidates[j]
                   /\ after = get_results(j).candidates
      ]_vars

\* a job has its two candidates stored while the other job is still analysing
\* with a candidate in memory
C8_Witness ==
    \E j1, j2 \in DOMAIN jobs :
        /\ j1 \in DOMAIN candidates /\ Len(candidates[j1]) = 2
        /\ jobs[j2].status = "running" /\ Len(runs[j2].acc) >= 1

\* C9: in every results answer accepted_count + rejected_count +
\* human_review_count equals total_candidates, the length of the candidate list.
C9_CountsSumToTotal ==
    \A j \in JobIds :
        LET r == get_results(j)
        IN  r.code = 200 =>
               /\ r.accepted_count + r.rejected_count + r.human_review_count
                     = r.total_candidates
               /\ r.total_candidates = Len(r.candidates)

\* a results answer with two candidates of different dispositions, one rejected
C9_Witness ==
    \E j \in DOMAIN jobs :
        /\ get_results(j).total_candidates = 2
        /\ get_results(j).accepted_count = 1
        /\ get_results(j).rejected_count = 1

\* ------------------------------------------------------------------------
\* Further properties of one cache object, calls made one at a time
\* ------------------------------------------------------------------------
\* C11: put(key, value) on a stored key replaces its value, makes the key the
\* most recently used and evicts nothing: the set of stored keys is unchanged
\* (also at capacity), and the other entries keep their values and their order.
C11_PutStoredKeyReplaces ==
    [][ \A c \in DOMAIN caches :
          (last'.op = "put" /\ last'.c = c /\ last'.key \in KeysOf(caches[c].cache)) =>
             LET old == caches[c].cache
                 new == caches'[c].cache
                 key == last'.key
             IN  /\ last'.raised = "none"
                 /\ last'.evicted_key = NoKey
                 /\ KeysOf(new) = KeysOf(old)
                 /\ Len(new) = Len(old)
                 /\ new[Len(new)] = <<key, last'.value>>
                 /\ SelectPairs(new, key) = SelectPairs(old, key)
                 /\ caches'[c].hits = caches[c].hits
                 /\ caches'[c].misses = caches[c].misses
      ]_vars

\* a put has replaced the value of a stored key that was the oldest entry of a
\* cache at capacity with two entries
C11_Witness ==
    /\ last.op = "put" /\ last.evicted_key = NoKey
    /\ Len(caches[last.c].cache) = caches[last.c].maxsize
    /\ Len(caches[last.c].cache) = 2
    /\ accessOrder[last.c] = KeyOrder(caches[last.c].cache)
    /\ lastPut[last.c][last.key] = last.value /\ last.value = 2
    /\ scen = 0

\* ------------------------------------------------------------------------
\* Further properties of the jobs
\* ------------------------------------------------------------------------
\* the moves of the stage label: from no label to the first stage, and from a
\* stage to the next one
StageMoves ==
    {<<"", Stages[1]>>} \cup {<<Stages[i], Stages[i + 1]>> : i \in 1..(Len(Stages) - 1)}

\* the stage whose work an execution at position pc is doing
StageOfWork(pc) ==
    IF pc = "preprocessing_miss" THEN "preprocessing"
    ELSE IF pc = "bls_search_miss" THEN "bls_search"
    ELSE pc

\* C12: within one job the stage label, as the status query reports it, takes
\* the values loading, preprocessing, bls_search, candidate_analysis, completed
\* in that order, one step at a time (none skipped, repeated after another or
\* revisited, also when a cache lookup hits), and while the work of a stage is
\* being done the label already names that stage.
C12_StagesInOrder ==
    [][ \A j \in DOMAIN jobs' :
          \A after \in {get_status(j)'.current_step} :
             /\ IF j \in DOMAIN jobs
                THEN \A before \in {get_status(j).current_step} :
                        after = before \/ <<before, after>> \in StageMoves
                ELSE after = ""
             /\ runs'[j].pc \notin {"queued", "done"} => after = StageOfWork(runs'[j].pc)
             /\ jobs'[j].status = "completed" => after = "completed"
      ]_vars

\* two jobs have completed and a lookup has hit in each of the two caches
C12_Witness ==
    /\ Len(jobs) = 2
    /\ \A j \in DOMAIN jobs : get_status(j).current_step = "completed"
    /\ caches["preprocess"].hits >= 1
    /\ caches["bls"].hits >= 1

\* ------------------------------------------------------------------------
\* The gateway adapter called on its own: fit_transit and run_checks for
\* every outcome of the remote request
\* ------------------------------------------------------------------------
\* the series handed to fit_transit
Times == {<<>>, SeriesTime}

\* bodies the remote service answers a fit request with
FitResponses ==
    {[t0_bjd |-> Median(SeriesTime), snr |-> snr, success |-> TRUE, message |-> <<"ok">>] :
        snr \in 1..NumRemoteSnr}

\* bodies the remote service answers a checks request with: every result of the
\* shape of the checks, a check that cannot be computed being None
ChecksResponses ==
    {[mock_checks_result EXCEPT !.centroid_shift_proxy = c,
                                !.stellar_density_consistent = b] :
        c \in {None, 1}, b \in BOOLEAN}

CallFitTransit(time, outcome, response) ==
    /\ adapter' = [adapter EXCEPT !.fit =
                      [time |-> time, outcome |-> outcome, response |-> response,
                       ret |-> fit_transit(time, outcome, response)]]
    /\ UNCHANGED <<cacheVars, threadVars, jobVars, verdict, memo, script>>

CallRunChecks(outcome, response) ==
    /\ adapter' = [adapter EXCEPT !.checks =
                      [outcome |-> outcome, response |-> response,
                       ret |-> run_checks(outcome, response)]]
    /\ UNCHANGED <<cacheVars, threadVars, jobVars, verdict, memo, script>>

InitGateway ==
    /\ caches = [c \in {"preprocess", "bls"} |->
                    IF c = "preprocess" THEN LRUCache(PreprocessMaxsize)
                    ELSE LRUCache(BlsMaxsize)]
    /\ last = NoCall
    /\ accessOrder = [c \in {"preprocess", "bls"} |-> <<>>]
    /\ lastPut = [c \in {"preprocess", "bls"} |-> [k \in Keys |-> None]]
    /\ scen = 0
    /\ threads = <<>>
    /\ getCalls = 0
    /\ cleared = FALSE
    /\ NoJobs
    /\ adapter = NoAdapterCalls
    /\ verdict = NoVerdict
    /\ memo = NoMemos
    /\ script = NoScript

NextGateway ==
    \/ \E time \in Times, outcome \in RequestOutcomes :
          \E response \in (IF outcome = "ok" THEN FitResponses ELSE {None}) :
             CallFitTransit(time, outcome, response)
    \/ \E outcome \in RequestOutcomes :
          \E response \in (IF outcome = "ok" THEN ChecksResponses ELSE {None}) :
             CallRunChecks(outcome, response)

SpecGateway == InitGateway /\ [][NextGateway]_vars

\* the message the fallback fit carries for a failed request
CauseOf(outcome) ==
    IF outcome = "Timeout" THEN <<"API timeout">>
    ELSE IF outcome \in {"ConnectionError", "HTTPError"} THEN <<"API error", outcome>>
    ELSE <<"Error", outcome>>

\* C13: fit_transit never raises; when the remote call times out, fails in
\* transport, answers an HTTP error status or fails in any other way, it returns
\* a fallback result with success = false and a message naming the cause.
C13_FitTransitFallsBack ==
    adapter.fit.outcome # "none" =>
       /\ adapter.fit.ret.returns
       /\ adapter.fit.ret.raised = "none"
       /\ adapter.fit.outcome # "ok" =>
             /\ adapter.fit.ret.result.success = FALSE
             /\ adapter.fit.ret.result.message = CauseOf(adapter.fit.outcome)
       /\ adapter.fit.outcome = "ok" => adapter.fit.ret.result = adapter.fit.response

\* fit_transit has returned the fallback for a request that got an HTTP error status
C13_Witness ==
    /\ adapter.fit.outcome = "HTTPError"
    /\ adapter.fit.ret.result.success = FALSE
    /\ adapter.fit.ret.result.message = <<"API error", "HTTPError">>

\* C14: run_checks never raises, and on a timeout or a transport error it
\* returns a fallback result that is flagged as a fallback: it differs from
\* every result the remote service returns successfully.
C14_RunChecksFallbackFlagged ==
    adapter.checks.outcome # "none" =>
       /\ adapter.checks.ret.returns
       /\ adapter.checks.ret.raised = "none"
       /\ adapter.checks.outcome # "ok" => adapter.checks.ret.result \notin ChecksResponses

InitAnyCapacity ==
    /\ \E n \in 0..MaxSize : caches = [c \in {"lru"} |-> LRUCache(n)]
    /\ last = NoCall
    /\ accessOrder = [c \in {"lru"} |-> <<>>]
    /\ lastPut = [c \in {"lru"} |-> [k \in Keys |-> None]]
    /\ scen = 0
    /\ threads = <<>>
    /\ getCalls = 0
    /\ cleared = FALSE
    /\ NoJobs
    /\ adapter = NoAdapterCalls
    /\ verdict = NoVerdict
    /\ memo = NoMemos
    /\ script = NoScript

SpecAnyCapacity == InitAnyCapacity /\ [][Next]_vars

\* C16: no call of get, put, clear or stats raises, for any configured capacity
\* and after any sequence of calls; a get that misses returns None normally.
C16_CacheOperationsNeverRaise ==
    /\ last.raised = "none"
    /\ (last.op = "get" /\ last.key \notin KeysOf(caches[last.c].cache)) => last.ret = None

\* HTTPException(status_code=404, detail="Job not found")
NotFound == [code |-> 404, detail |-> "Job not found"]

\* C17: a status query or a results query for a job identifier that is not in
\* the job store answers 404 'not found' with no job data, and leaves the store
\* without a job record or a candidate set for that identifier.
C17_UnknownJobNotFound ==
    [][ \A id \in JobIds \ DOMAIN jobs :
          /\ get_status(id) = NotFound
          /\ get_results(id) = NotFound
          /\ id \notin DOMAIN candidates
          /\ id \notin DOMAIN candidates'
          /\ id \in DOMAIN jobs' => (id = Len(jobs) + 1 /\ jobs'[id] = create_job(id))
          /\ id \notin DOMAIN jobs' => (get_status(id)' = NotFound /\ get_results(id)' = NotFound)
      ]_vars

\* the first job has completed with candidates and the second identifier is
\* unknown to both queries
C17_Witness ==
    /\ Len(jobs) = 1
    /\ get_results(1).code = 200 /\ get_results(1).total_candidates = 2
    /\ get_status(2) = NotFound
    /\ get_results(2) = NotFound

\* C18: for a job whose status is failed, a results query never answers in the
\* form of a completed job (a candidate list with counts and a 'Found N
\* candidates' message), which would mask the failure.
C18_FailedJobResultsNotMasked ==
    \A j \in DOMAIN jobs :
        get_status(j).status = "failed" =>
           \/ get_results(j).code # 200
           \/ DOMAIN get_results(j) \cap
                 {"candidates", "total_candidates", "accepted_count", "rejected_count",
                  "human_review_count"} = {}

\* C19: the status query reports error equal to the job's message when the
\* job's status is failed, and no error (None) for queued, running and
\* completed, whatever the job's message holds.
C19_ErrorOnlyWhenFailed ==
    \A j \in DOMAIN jobs :
        /\ get_status(j).code = 200
        /\ IF jobs[j].status = "failed"
           THEN get_status(j).error = jobs[j].message
           ELSE get_status(j).error = NoneStr

\* a completed job holds a message and reports no error while a failed job
\* reports its message
C19_Witness ==
    \E j1, j2 \in DOMAIN jobs :
        /\ jobs[j1].status = "completed" /\ jobs[j1].message = "Detection completed"
        /\ get_status(j1).error = NoneStr
        /\ jobs[j2].status = "failed" /\ get_status(j2).error = "Period search failed"

\* ------------------------------------------------------------------------
\* Termination of the jobs
\* ------------------------------------------------------------------------
\* a step of the execution of job j, once it has started
JobStep(j) ==
    /\ j \in DOMAIN jobs
    /\ \/ \E ok \in BOOLEAN : Loading(j, ok)
       \/ PreprocessLookup(j)
       \/ \E ok \in BOOLEAN : PreprocessCompute(j, ok)
       \/ BlsLookup(j)
       \/ \E ok \in BOOLEAN : BlsCompute(j, ok)
       \/ \E outcome \in GatewayOutcomes : AnalyseCandidate(j, outcome)
       \/ AnalysisError(j)
       \/ Complete(j)

\* The service with executions that are never cancelled or starved: a started
\* execution goes on taking its steps (the stage functions return, and each
\* gateway call returns within TIMEOUT seconds)
SpecJobsFair == SpecJobs /\ \A j \in JobIds : WF_vars(JobStep(j))

\* C20: every job that is started eventually reaches completed or failed: a
\* client polling the status query of a running job eventually sees a terminal
\* status.
C20_StartedJobTerminates ==
    \A j \in JobIds :
        (j \in DOMAIN jobs /\ get_status(j).status = "running")
            ~> (j \in DOMAIN jobs /\ get_status(j).status \in {"completed", "failed"})

\* two jobs have been started and both have reached a terminal status, one of
\* them after a gateway timeout
C20_Witness ==
    /\ Len(jobs) = 2
    /\ get_status(1).status = "completed"
    /\ get_status(2).status \in {"completed", "failed"}
    /\ \E i \in DOMAIN get_results(1).candidates :
          get_results(1).candidates[i].fit_message = <<"API timeout">>

\* ------------------------------------------------------------------------
\* The two global cache objects of the module and the functions over both
\* ------------------------------------------------------------------------
\* the series whose results the caches hold
Series == 1..NumSeries

\* the keys the callers use: the digest of a series, named by the series
ModuleKeys == Series

\* the memoized computation: one result per series
ResultOf(key) == key

\* clear_all_caches(): both objects after the call
clear_all_caches(cs) ==
    [cs EXCEPT !["preprocess"] = clear(@), !["bls"] = clear(@)]

\* get_cache_stats that reports the preprocessing cache under both names
get_cache_stats_sameCache(cs) ==
    [preprocess |-> stats(cs["preprocess"]).ret, bls |-> stats(cs["preprocess"]).ret]

\* get_cache_stats(): the returned dict of dicts
get_cache_stats(cs) ==
    [preprocess |-> stats(cs["preprocess"]).ret, bls |-> stats(cs["bls"]).ret]

\* POST /api/cache/clear
ClearAllCaches ==
    /\ caches' = clear_all_caches(caches)
    /\ last' = [NoCall EXCEPT !.op = "clear_all_caches"]
    /\ accessOrder' = [c \in DOMAIN caches |-> <<>>]
    /\ lastPut' = [c \in DOMAIN caches |-> [k \in Keys |-> None]]
    /\ scen' = 0
    /\ UNCHANGED <<threadVars, jobVars, adapter, verdict, memo, script>>

\* GET /api/cache/stats
GetCacheStats ==
    /\ last' = [NoCall EXCEPT !.op = "get_cache_stats", !.stats = get_cache_stats(caches)]
    /\ scen' = 0
    /\ UNCHANGED <<caches, accessOrder, lastPut>>
    /\ UNCHANGED <<threadVars, jobVars, adapter, verdict, memo, script>>

NextModule ==
    \/ \E c \in DOMAIN caches, key \in ModuleKeys :
          /\ caches[c].hits + caches[c].misses < MaxModuleGets
          /\ CallGet(c, key)
    \/ \E c \in DOMAIN caches, key \in ModuleKeys : CallPut(c, key, ResultOf(key))
    \/ \E c \in DOMAIN caches : CallClear(c)
    \/ \E c \in DOMAIN caches : CallStats(c)
    \/ ClearAllCaches
    \/ GetCacheStats

\* The module after import: preprocess_cache and bls_cache empty
SpecModule == InitJobs /\ [][NextModule]_vars

Cleared(self) == self.cache = <<>> /\ self.hits = 0 /\ self.misses = 0

\* C21: after clear() a cache has no entries and hits = misses = 0, whatever
\* its previous state; clear_all_caches() puts both the preprocessing cache and
\* the period-search cache in that state.
C21_ClearEmptiesAndResets ==
    [][ /\ \A c \in DOMAIN caches :
             \A cleared_ \in {clear(caches[c])} :
                /\ Cleared(cleared_)
                /\ cleared_.maxsize = caches[c].maxsize
                /\ last'.op = "clear" /\ last'.c = c => caches'[c] = cleared_
        /\ last'.op = "clear_all_caches" => \A c \in DOMAIN caches : Cleared(caches'[c])
      ]_vars

\* clear_all_caches has just run: both caches are empty with zero counters
C21_Witness ==
    /\ last.op = "clear_all_caches"
    /\ \A c \in DOMAIN caches : Cleared(caches[c])

\* a fraction in lowest terms equals a / b
IsQuotient(q, a, b) == q.den > 0 /\ q.num * b = a * q.den /\ Gcd(q.num, q.den) = 1

\* C22: stats() reports size = number of stored entries, the configured
\* maxsize, the current hits and misses, hit_rate = hits / (hits + misses) when
\* hits + misses > 0 and 0 when no get has been made, and usage_pct = size /
\* maxsize * 100; stats() changes neither the entries, their order, nor the
\* counters.
C22_StatsReportsAndReadsOnly ==
    [][ \A c \in DOMAIN caches :
          last'.op = "stats" /\ last'.c = c =>
             \A self \in {caches[c]} :
                /\ last'.raised = "none"
                /\ last'.stats.size = Cardinality(KeysOf(self.cache))
                /\ last'.stats.maxsize = self.maxsize
                /\ last'.stats.hits = self.hits
                /\ last'.stats.misses = self.misses
                /\ IF self.hits + self.misses > 0
                   THEN IsQuotient(last'.stats.hit_rate, self.hits, self.hits + self.misses)
                   ELSE last'.stats.hit_rate.num = 0
                /\ IsQuotient(last'.stats.usage_pct, Len(self.cache) * 100, self.maxsize)
                /\ caches' = caches
      ]_vars

\* stats() has reported a cache of capacity 2 with one entry after one hit and
\* one miss: hit rate 1/2, usage 50 per cent
C22_Witness ==
    /\ last.op = "stats"
    /\ last.stats.size = 1 /\ last.stats.maxsize = 2
    /\ last.stats.hits = 1 /\ last.stats.misses = 1
    /\ last.stats.hit_rate = Ratio(1, 2)
    /\ last.stats.usage_pct = Ratio(50, 1)

\* C23: calling get(key) twice in a row with no intervening put does not
\* change which key is evicted next compared with calling it once; the only
\* difference is that both calls count (as hits when the key is stored).
C23_SecondGetChangesNoOrder ==
    [][ \A c \in DOMAIN caches :
          (/\ last.op = "get" /\ last.c = c
           /\ last'.op = "get" /\ last'.c = c /\ last'.key = last.key
           /\ caches' # caches)
          => \A once \in {caches[c]}, twice \in {caches'[c]} :
                /\ twice.cache = once.cache
                /\ \A key \in Keys :
                      put(twice, key, 1).evicted_key = put(once, key, 1).evicted_key
                /\ last'.ret = last.ret
                /\ IF Contains(once.cache, last.key)
                   THEN twice.hits = once.hits + 1 /\ twice.misses = once.misses
                   ELSE twice.hits = once.hits /\ twice.misses = once.misses + 1
      ]_vars

\* two gets have been made and both have hit, the latest on the key that is now
\* the last to be evicted of a full cache of two entries
C23_Witness ==
    /\ last.op = "get" /\ last.c = "lru"
    /\ caches["lru"].hits = 2 /\ caches["lru"].misses = 0
    /\ caches["lru"].maxsize = 2 /\ Len(caches["lru"].cache) = 2
    /\ caches["lru"].cache[2][1] = last.key

\* the figures of one cache object
FiguresOf(self) ==
    [size |-> Len(self.cache), maxsize |-> self.maxsize,
     hits |-> self.hits, misses |-> self.misses]

Figures(st) == [size |-> st.size, maxsize |-> st.maxsize, hits |-> st.hits, misses |-> st.misses]

\* C24: the preprocessing cache and the period-search cache are independent:
\* get, put and clear on one leave the other's entries, recency order, hits
\* and misses unchanged, and get_cache_stats reports each cache's own figures.
C24_CachesIndependent ==
    [][ /\ \A c \in DOMAIN caches :
             (last'.op \in {"get", "put", "clear", "stats"} /\ last'.c = c)
             => \A other \in DOMAIN caches \ {c} : caches'[other] = caches[other]
        /\ last'.op = "get_cache_stats"
             => /\ Figures(last'.stats.preprocess) = FiguresOf(caches["preprocess"])
                /\ Figures(last'.stats.bls) = FiguresOf(caches["bls"])
                /\ last'.stats.preprocess.maxsize = PreprocessMaxsize
                /\ last'.stats.bls.maxsize = BlsMaxsize
                /\ caches' = caches
      ]_vars

\* get_cache_stats has reported the two caches with different contents and
\* counters: two entries and a hit in one, one entry and a miss in the other
C24_Witness ==
    /\ last.op = "get_cache_stats"
    /\ last.stats.preprocess.size = 2 /\ last.stats.preprocess.hits = 1
    /\ last.stats.bls.size = 1 /\ last.stats.bls.misses = 1
    /\ KeyOrder(caches["preprocess"].cache) = <<2, 1>>

\* ------------------------------------------------------------------------
\* The Disposition Classifier called on its own
\* ------------------------------------------------------------------------
\* signal-to-noise values, thresholds and outcomes of the validation flags
SnrValues == 0..MaxSnr
Thresholds == 1..MaxMinSnr
FlagOutcomes == {"pass", "fail", "null"}
Dispositions == {"accept", "reject", "human_review"}

Classify(snr, min_snr, flags) ==
    /\ verdict' = [snr |-> snr, min_snr |-> min_snr, flags |-> flags,
                   rl_action |-> classify(snr, min_snr, flags)]
    /\ UNCHANGED <<cacheVars, threadVars, jobVars, adapter, memo, script>>

NextClassifier ==
    \E snr \in SnrValues, min_snr \in Thresholds, flags \in FlagOutcomes :
       Classify(snr, min_snr, flags)

SpecClassifier == InitGateway /\ [][NextClassifier]_vars

\* C25: the classifier is a total, deterministic function of (snr, threshold,
\* flags) that returns exactly one of accept, reject, human_review: reject
\* whenever snr is below the threshold or a validation flag definitively
\* fails, and accept only when snr is at or above the threshold and no flag
\* fails.
C25_ClassifierTotalAndConsistent ==
    verdict # NoVerdict =>
       /\ verdict.rl_action \in Dispositions
       /\ verdict.rl_action = classify(verdict.snr, verdict.min_snr, verdict.flags)
       /\ (verdict.snr < verdict.min_snr \/ verdict.flags = "fail")
             => verdict.rl_action = "reject"
       /\ verdict.rl_action = "accept"
             => verdict.snr >= verdict.min_snr /\ verdict.flags # "fail"

\* a candidate at the threshold whose flag fails has been rejected
C25_Witness ==
    /\ verdict # NoVerdict
    /\ verdict.snr = verdict.min_snr /\ verdict.flags = "fail"
    /\ verdict.rl_action = "reject"

\* ------------------------------------------------------------------------
\* What the status query reports, whether the cache lookups hit or miss
\* ------------------------------------------------------------------------
\* the stage and progress a status answer reports
ReportOf(answer) == <<answer.current_step, answer.progress_pct>>

\* the report that follows a report in every run
NextReport(report) ==
    IF report[1] = "" THEN <<Stages[1], ProgressOf(Stages[1])>>
    ELSE IF StageIndex(report[1]) < Len(Stages)
    THEN <<Stages[StageIndex(report[1]) + 1], ProgressOf(Stages[StageIndex(report[1]) + 1])>>
    ELSE report

\* the step is a cache lookup of the run of job j that hits / that misses
LookupHits(j) ==
    /\ runs[j].pc \in {"preprocessing", "bls_search"}
    /\ runs'[j].pc # runs[j].pc
    /\ \E c \in DOMAIN caches : caches'[c].hits = caches[c].hits + 1

LookupMisses(j) ==
    /\ runs[j].pc \in {"preprocessing", "bls_search"}
    /\ runs'[j].pc # runs[j].pc
    /\ \E c \in DOMAIN caches : caches'[c].misses = caches[c].misses + 1

\* the step computes and stores what a lookup of the run of job j missed
ComputesMissed(j) ==
    /\ runs[j].pc \in {"preprocessing_miss", "bls_search_miss"}
    /\ runs'[j].pc \in {"bls_search", "candidate_analysis"}

\* C26: two runs of the same job that differ only in whether the
\* preprocessing and period-search lookups hit or miss report the same
\* sequence of stage and progress_pct values: every run's reports follow the
\* one fixed sequence; a lookup that hits moves to the next report, a lookup
\* that misses leaves the report as it is, and the computation after the miss
\* moves to that same next report.
C26_ReportsIndependentOfCache ==
    [][ \A j \in DOMAIN jobs :
          \A before \in {ReportOf(get_status(j))}, after \in {ReportOf(get_status(j)')} :
             /\ after = before \/ after = NextReport(before)
             /\ LookupHits(j) => after = NextReport(before) /\ after # before
             /\ LookupMisses(j) => after = before
             /\ ComputesMissed(j) => after = NextReport(before) /\ after # before
      ]_vars

\* two runs of the same dataset have completed with progress 100, one after
\* missing in both caches and one after hitting in both
C26_Witness ==
    /\ Len(jobs) = 2
    /\ runs[1].pc = "done" /\ runs[2].pc = "done"
    /\ \A j \in DOMAIN jobs : ReportOf(get_status(j)) = <<"completed", 100>>
    /\ \A c \in DOMAIN caches : caches[c].hits = 1 /\ caches[c].misses = 1

\* ------------------------------------------------------------------------
\* Memoization: what a caller that repeats a request can count on
\* ------------------------------------------------------------------------
\* the history after a call that accessed key (isPut: the call was a put)
Accessed(key, value, isPut) ==
    [k \in Keys |->
        IF k = key THEN [live |-> TRUE, value |-> value, puts |-> {}, accessed |-> {}]
        ELSE IF memo[k].live
        THEN [memo[k] EXCEPT !.puts = IF isPut THEN @ \cup {key} ELSE @,
                             !.accessed = @ \cup {key}]
        ELSE memo[k]]

\* cache.put(key, value) by a caller that has computed value
MemoPut(key, value) ==
    /\ LET r == put(caches["lru"], key, value)
       IN  /\ r.raised = "none"
           /\ caches' = [caches EXCEPT !["lru"] = r.self]
           /\ memo' = Accessed(key, value, TRUE)
    /\ UNCHANGED <<last, accessOrder, lastPut, scen, threadVars, jobVars,
                   adapter, verdict, script>>

\* cache.get(key) by a caller that repeats a request: a hit is an access
MemoGet(key) ==
    /\ caches["lru"].hits + caches["lru"].misses < MaxMemoGets
    /\ LET r == get(caches["lru"], key)
       IN  /\ caches' = [caches EXCEPT !["lru"] = r.self]
           /\ memo' = IF r.self.hits > caches["lru"].hits /\ memo[key].live
                      THEN Accessed(key, memo[key].value, FALSE)
                      ELSE memo
    /\ UNCHANGED <<last, accessOrder, lastPut, scen, threadVars, jobVars,
                   adapter, verdict, script>>

\* cache.clear()
MemoClear ==
    /\ caches' = [caches EXCEPT !["lru"] = clear(@)]
    /\ memo' = NoMemos
    /\ UNCHANGED <<last, accessOrder, lastPut, scen, threadVars, jobVars,
                   adapter, verdict, script>>

\* the results the callers store
MemoValues == 1..NumValues

NextMemo ==
    \/ \E key \in Keys, value \in MemoValues : MemoPut(key, value)
    \/ \E key \in Keys : MemoGet(key)
    \/ MemoClear

SpecMemo == Init /\ [][NextMemo]_vars

\* a get(key) made now hits and returns value
Served(key, value) ==
    \A r \in {get(caches["lru"], key)} :
       /\ r.ret = value
       /\ r.self.hits = caches["lru"].hits + 1
       /\ r.self.misses = caches["lru"].misses

\* C27 as stated: after put(k, v), a later get(k) hits and returns v, provided
\* no clear happened and fewer than maxsize distinct other new keys were put
\* since k was last accessed (every other key put since then is counted, also
\* one that was stored already).
C27_ServedUnlessNewKeysPut ==
    \A k \in Keys :
       (memo[k].live /\ Cardinality(memo[k].puts) < caches["lru"].maxsize)
       => Served(k, memo[k].value)

\* C27, amended: after put(k, v), a later get(k) hits and returns v, provided
\* no clear happened and fewer than maxsize distinct other keys were accessed
\* (put, or found by get) since k was last accessed.
C27_ServedUnlessOthersAccessed ==
    \A k \in Keys :
       (memo[k].live /\ Cardinality(memo[k].accessed) < caches["lru"].maxsize)
       => Served(k, memo[k].value)

\* in a cache of capacity 2, key 1 was put and then found by a get, another
\* key has been accessed since, and a get of key 1 would still be served
C27_Witness ==
    /\ caches["lru"].maxsize = 2
    /\ caches["lru"].hits >= 1
    /\ memo[1].live /\ Cardinality(memo[1].accessed) = 1
    /\ Served(1, memo[1].value)

\* ------------------------------------------------------------------------
\* The cache demonstration script (test_cache_improvements.py, main)
\* ------------------------------------------------------------------------
\* a cached computation: the cache is asked first; on a miss the result is
\* computed and stored
Memoized(self, key, value) ==
    LET r == get(self, key)
    IN  IF r.ret # None
        THEN [self |-> r.self, found |-> "hit"]
        ELSE [self |-> put(r.self, key, value).self, found |-> "miss"]

\* the datasets a phase of the script goes through: the initial ones (seeds 42,
\* 123, 456) are 1..InitialDatasets, the further ones (seeds 1000 + i) follow
PhaseDatasets(pc) ==
    IF pc \in {"first", "repeat"} THEN [i \in 1..InitialDatasets |-> i]
    ELSE IF pc = "eviction" THEN [i \in 1..FurtherDatasets |-> InitialDatasets + i]
    ELSE <<1>>

NextPhase(pc) ==
    IF pc = "first" THEN "repeat"
    ELSE IF pc = "repeat" THEN "eviction"
    ELSE IF pc = "eviction" THEN "verify"
    ELSE "done"

\* line 55: the script starts from empty caches
ScriptStart ==
    /\ script = NoScript
    /\ caches' = clear_all_caches(caches)
    /\ script' = [pc |-> "first", call |-> "preprocess", i |-> 1, found |-> "none"]
    /\ UNCHANGED <<last, accessOrder, lastPut, scen, threadVars, jobVars,
                   adapter, verdict, memo>>

\* preprocess_pipeline(time, flux) of the dataset in turn; the last phase
\* (lines 126-128) makes this call only
ScriptPreprocess ==
    /\ script.pc \in {"first", "repeat", "eviction", "verify"}
    /\ script.call = "preprocess"
    /\ LET dataset == PhaseDatasets(script.pc)[script.i]
           r == Memoized(caches["preprocess"], dataset, dataset)
       IN  /\ caches' = [caches EXCEPT !["preprocess"] = r.self]
           /\ script' = IF script.pc = "verify"
                        THEN [script EXCEPT !.pc = "done", !.found = r.found]
                        ELSE [script EXCEPT !.call = "bls", !.found = r.found]
    /\ UNCHANGED <<last, accessOrder, lastPut, scen, threadVars, jobVars,
                   adapter, verdict, memo>>

\* extract_bls_features(time_clean, flux_clean, ...) of the dataset in turn
ScriptBls ==
    /\ script.pc \in {"first", "repeat", "eviction"}
    /\ script.call = "bls"
    /\ LET dataset == PhaseDatasets(script.pc)[script.i]
           r == Memoized(caches["bls"], dataset, dataset)
       IN  /\ caches' = [caches EXCEPT !["bls"] = r.self]
           /\ script' = IF script.i < Len(PhaseDatasets(script.pc))
                        THEN [script EXCEPT !.call = "preprocess", !.i = @ + 1,
                                            !.found = r.found]
                        ELSE [script EXCEPT !.pc = NextPhase(@), !.call = "preprocess",
                                            !.i = 1, !.found = r.found]
    /\ UNCHANGED <<last, accessOrder, lastPut, scen, threadVars, jobVars,
                   adapter, verdict, memo>>

NextScript ==
    \/ ScriptStart
    \/ ScriptPreprocess
    \/ ScriptBls

SpecScript == InitJobs /\ [][NextScript]_vars

\* C28: after the 3 initial datasets and then 60 further distinct datasets
\* have each been processed once, the first dataset's preprocessing result
\* has been evicted from the preprocessing cache (maxsize 100), so processing
\* the first dataset again is a cache miss.
C28_FirstDatasetEvicted ==
    /\ script.pc = "verify" => ~Contains(caches["preprocess"].cache, 1)
    /\ script.pc = "done" => script.found = "miss"

\* C29: between two clear calls hits and misses never decrease, and hits +
\* misses equals the number of get calls made since the last clear (or since
\* construction): both start at 0, clear sets both to 0, every get adds exactly
\* one to their sum, and put and stats change neither.
C29_CountersCountGets ==
    /\ \A c \in DOMAIN caches : caches[c].hits = 0 /\ caches[c].misses = 0
    /\ [][ \A c \in DOMAIN caches :
             \A old \in {caches[c]}, new \in {caches'[c]} :
                IF last'.op = "clear" /\ last'.c = c
                THEN new.hits = 0 /\ new.misses = 0
                ELSE /\ new.hits >= old.hits
                     /\ new.misses >= old.misses
                     /\ new.hits + new.misses =
                           old.hits + old.misses
                              + (IF last'.op = "get" /\ last'.c = c THEN 1 ELSE 0)
                     /\ last'.op \in {"put", "stats"}
                           => new.hits = old.hits /\ new.misses = old.misses
         ]_vars

\* after one hit and one miss a put has left both counters as they were
C29_Witness ==
    /\ last.op = "put" /\ last.evicted_key # NoKey
    /\ caches[last.c].hits = 1 /\ caches[last.c].misses = 1

\* C30: get(key) returns None only when the key is not stored: for every
\* value that put accepts, a lookup counted as a hit is distinguishable from a
\* miss by its return value.
C30_NoneOnlyOnMiss ==
    [][ \A c \in DOMAIN caches :
          (last'.op = "get" /\ last'.c = c /\ last'.ret = None)
          => /\ ~Contains(caches[c].cache, last'.key)
             /\ caches'[c].hits = caches[c].hits
      ]_vars

====
